---- MODULE Spec2Model ----
(***************************************************************************)
(* The virtio-vsock device of dbs-virtio-devices (vsock/device.rs) and the *)
(* counters of vsock/metrics.rs, as a state machine.                       *)
(*                                                                         *)
(* Vsock's operations are translated from device.rs.  What they call into  *)
(* outside the two files (VirtioDeviceInfo, the muxer, the connections and *)
(* the kill-queue) follows the design document, and is marked so below.    *)
(*                                                                         *)
(* Options (Option<T>) are sequences of length at most one: <<>> is None   *)
(* and <<x>> is Some(x).  A 64-bit context id is four 16-bit limbs, least  *)
(* significant first, so that every byte of it can be computed.            *)
(***************************************************************************)
EXTENDS Integers, Sequences, FiniteSets, TLC

VARIABLES
    cid,              \* Vsock.cid
    queue_sizes,      \* Vsock.queue_sizes (the configured maxima)
    config_space,     \* device_info.config_space
    avail_features,   \* device_info.avail_features (set of bit numbers)
    acked_features,   \* device_info.acked_features (set of bit numbers)
    subscriber_id,    \* Vsock.subscriber_id : Option<SubscriberId>
    muxer,            \* Vsock.muxer : Option<M>
    cfg_fails,        \* metrics.cfg_fails
    activate_fails,   \* metrics.activate_fails
    handlers,         \* the dispatcher: the registered handlers, token -> muxer
    next_id,          \* the dispatcher: the next registration token
    regs,             \* calls of register_event_handler so far
    deregs,           \* calls of remove_event_handler so far
    pc,               \* "run", or "panicked" once an unwrap met None
    last,             \* the last call: its name, inputs and result
    conn_map,         \* the muxer's connection table, in insertion order
    listener_map,     \* the muxer's reverse index: pairs <<backend fd, key>>
    killq,            \* the muxer's kill-queue: [key, deadline], in order
    now,              \* the clock the kill-queue deadlines are read against
    arc_metrics,      \* the VsockDeviceMetrics objects allocated so far
    holders,          \* each holder's Arc<VsockDeviceMetrics>: an index, 0 if none
    inc_calls         \* inc() calls made so far on each counter, by any holder

muxvars == <<conn_map, listener_map, killq, now>>

metvars == <<arc_metrics, holders, inc_calls>>

vars == <<cid, queue_sizes, config_space, avail_features, acked_features,
          subscriber_id, muxer, cfg_fails, activate_fails, handlers, next_id,
          regs, deregs, pc, last, muxvars, metvars>>

---------------------------------------------------------------------------
(* Program constants *)

VSOCK_CONFIG_SPACE_SIZE == 8

VIRTIO_F_VERSION_1 == 32

VIRTIO_F_IN_ORDER == 35

VSOCK_AVAIL_FEATURES == {VIRTIO_F_VERSION_1, VIRTIO_F_IN_ORDER}

(* Bounds of the model *)

\* cfg_fails is counted up to this value
MaxCfgFails == 2

\* activate_fails is counted up to this value
MaxActivateFails == 2

\* config offsets 0..MaxOffset are tried (the config space ends at 8)
MaxOffset == 9

\* destination and source buffers of 0..MaxBufLen bytes are tried
MaxBufLen == 8

\* each counter of the shared metrics takes up to MaxIncs inc() calls
MaxIncs == 5

\* backends are keyed by the ports 1..MaxBackends
MaxBackends == 2

\* the connection table holds up to MaxConns connections
MaxConns == 2

\* a peer declares a buffer allocation of 1..MaxAlloc bytes
MaxAlloc == 2

\* the clock runs from 0 to MaxTime
MaxTime == 2

\* a closing connection is due KillTimeout ticks after it was queued
KillTimeout == 1

---------------------------------------------------------------------------
(* Inputs *)

None == <<>>

Some(x) == <<x>>

\* context ids: 3, 0x0807060504030201, 0x800012340000ffff
CIDs == { <<3, 0, 0, 0>>, <<513, 1027, 1541, 2055>>, <<65535, 0, 4660, 32768>> }

\* the context id of the device whose lifecycle is explored
LifecycleCIDs == { <<513, 1027, 1541, 2055>> }

BackendKeys == 1..MaxBackends

\* the queue configurations handed to activate
QueueConfigs == { <<2, 2, 2>>, <<1, 2, 2>>, <<2, 2>>, <<2, 2, 3>>, <<>> }

\* the queue maxima a device can be constructed with
ConfiguredQueueSizes == { <<2, 2, 2>>, <<2, 2>>, <<2>> }

\* ResourceConstraint::LegacyIrq { irq: None } (it has no size: 0 here)
LegacyIrq == [kind |-> "LegacyIrq", size |-> 0]

\* ResourceConstraint::GenericIrq { size }
GenericIrq(size) == [kind |-> "GenericIrq", size |-> size]

\* the request vectors a caller passes to get_resource_requirements
RequestVecs == { <<>>, <<LegacyIrq>>, <<GenericIrq(1), LegacyIrq>> }

Offsets == 0..MaxOffset

\* the caller's buffer of n bytes before a read: 0, 1, 2, ... as in the test
Buffer(n) == [i \in 1..n |-> i - 1]

Buffers == { Buffer(n) : n \in 0..MaxBufLen }

\* the config accesses tried between the lifecycle operations: an accepted
\* one, one running past the end, one at the end of the config space
SomeOffsets == {0, 2, VSOCK_CONFIG_SPACE_SIZE}

SomeBuffers == { Buffer(4), Buffer(VSOCK_CONFIG_SPACE_SIZE) }

Pages == 0..2

FeatureValues == SUBSET {0, 1, 3}

NoCall == [op |-> "new", ret |-> "Ok", offset |-> 0, before |-> <<>>, data |-> <<>>]

Call(op, ret) == [op |-> op, ret |-> ret, offset |-> 0, before |-> <<>>, data |-> <<>>]

---------------------------------------------------------------------------
(* Pure functions *)

Min(a, b) == IF a < b THEN a ELSE b

\* (cid >> (8 * i)) as u8, on the limbs of cid
ShiftByte(c, i) == (c[(i \div 2) + 1] \div (IF i % 2 = 0 THEN 1 ELSE 256)) % 256

\* a config space filled most significant byte first
ConfigSpaceOf_BigEndian(c) ==
    [k \in 1..VSOCK_CONFIG_SPACE_SIZE |-> ShiftByte(c, VSOCK_CONFIG_SPACE_SIZE - k)]

\* the loop of new_with_muxer that fills config_space
ConfigSpaceOf(c) == [k \in 1..VSOCK_CONFIG_SPACE_SIZE |-> ShiftByte(c, k - 1)]

\* the counters of VsockDeviceMetrics that are followed through their
\* holders: one the device counts, one the handler counts
Counters == {"activate_fails", "conns_added"}

\* VsockDeviceMetrics::default(): every counter at 0
DefaultMetrics == [c \in Counters |-> 0]

\* who can hold the Arc: the device, the handler activate builds, and a
\* thread that asked get_metrics for it
Holders == {"device", "handler", "reporter"}

\* the Arc the muxer creates and Vsock::new clones into the device
NewHolders == [h \in Holders |-> IF h = "device" THEN 1 ELSE 0]

\* VsockMuxer::new (design document): no backend, no default backend
NewMuxer == [backends |-> {}, default_backend |-> None]

\* VsockGenericMuxer::add_backend accepting the backend (design document:
\* a registry keyed by destination port and one optional default backend)
MuxerAddBackend(m, key, is_default) ==
    [backends |-> m.backends \cup {key},
     default_backend |-> IF is_default THEN Some(key) ELSE m.default_backend]

\* VirtioDeviceInfo::check_queue_sizes (design document: the queue sizes
\* are validated against the configured maxima)
CheckQueueSizes(maxima, queues) ==
    /\ Len(queues) = Len(maxima)
    /\ \A i \in 1..Len(queues) : queues[i] <= maxima[i]

\* VirtioDeviceInfo::read_config: the result and the destination afterwards
\* (design document: an out-of-range offset is rejected; the test of
\* device.rs: a read running past the end copies what there is and leaves
\* the rest of the destination alone)
DevInfoReadConfig(cs, offset, data) ==
    IF offset >= Len(cs)
    THEN [ok |-> FALSE, data |-> data]
    ELSE LET end == Min(offset + Len(data), Len(cs))
             n == end - offset
         IN [ok |-> TRUE,
             data |-> [i \in 1..Len(data) |->
                          IF i <= n THEN cs[offset + i] ELSE data[i]]]

\* VirtioDeviceInfo::write_config: the result and the config space afterwards
\* (design document: the device has no writable configuration, every write
\* is rejected)
DevInfoWriteConfig(cs, offset, data) == [ok |-> FALSE, cs |-> cs]

\* VirtioDeviceInfo::set_acked_features (design document: bits the device
\* does not advertise are ignored; the test of device.rs: a page above 1
\* acks nothing and no ack is taken back)
DevInfoSetAckedFeatures(avail, acked, page, value) ==
    LET v == IF page = 0 THEN value
             ELSE IF page = 1 THEN { b + 32 : b \in value }
             ELSE {}
    IN acked \cup (v \cap avail)

---------------------------------------------------------------------------
(* The device *)

InitWith(cids, sizes) ==
    /\ cid \in cids
    /\ queue_sizes \in sizes
    /\ config_space = ConfigSpaceOf(cid)
    /\ avail_features = VSOCK_AVAIL_FEATURES
    /\ acked_features = {}
    /\ subscriber_id = None
    /\ muxer = Some(NewMuxer)
    /\ cfg_fails = 0
    /\ activate_fails = 0
    /\ handlers = <<>>
    /\ next_id = 1
    /\ regs = 0
    /\ deregs = 0
    /\ pc = "run"
    /\ last = NoCall
    /\ conn_map = <<>>
    /\ listener_map = {}
    /\ killq = <<>>
    /\ now = 0
    /\ arc_metrics = <<DefaultMetrics>>
    /\ holders = NewHolders
    /\ inc_calls = DefaultMetrics

\* the device as the tests build it: three queues
InitOf(cids) == InitWith(cids, {<<2, 2, 2>>})

Init == InitOf(LifecycleCIDs)

InitConfig == InitOf(CIDs)

\* add_backend that reports success when the muxer is gone
add_backend_SilentAfterActivate ==
    /\ pc = "run"
    /\ \E key \in BackendKeys, is_default \in BOOLEAN, accepted \in BOOLEAN :
         IF muxer # None
         THEN /\ muxer' = IF accepted
                          THEN Some(MuxerAddBackend(muxer[1], key, is_default))
                          ELSE muxer
              /\ last' = Call("add_backend", IF accepted THEN "Ok" ELSE "MuxerError")
         ELSE /\ muxer' = muxer
              /\ last' = Call("add_backend", "Ok")
    /\ UNCHANGED <<metvars, muxvars, cid, queue_sizes, config_space, avail_features, acked_features,
                   subscriber_id, cfg_fails, activate_fails, handlers, next_id,
                   regs, deregs, pc>>

add_backend ==
    /\ pc = "run"
    /\ \E key \in BackendKeys, is_default \in BOOLEAN, accepted \in BOOLEAN :
         IF muxer # None
         THEN /\ muxer' = IF accepted
                          THEN Some(MuxerAddBackend(muxer[1], key, is_default))
                          ELSE muxer
              /\ last' = Call("add_backend", IF accepted THEN "Ok" ELSE "MuxerError")
         ELSE /\ muxer' = muxer
              /\ last' = Call("add_backend", "BackendAddAfterActivated")
    /\ UNCHANGED <<metvars, muxvars, cid, queue_sizes, config_space, avail_features, acked_features,
                   subscriber_id, cfg_fails, activate_fails, handlers, next_id,
                   regs, deregs, pc>>

\* set_acked_features that always acks on page 0
SetAckedFeatures_PageZero(page, value) ==
    /\ pc = "run"
    /\ acked_features' =
           DevInfoSetAckedFeatures(avail_features, acked_features, 0, value)
    /\ last' = Call("set_acked_features", "Ok")
    /\ UNCHANGED <<metvars, muxvars, cid, queue_sizes, config_space, avail_features, subscriber_id,
                   muxer, cfg_fails, activate_fails, handlers, next_id, regs,
                   deregs, pc>>

SetAckedFeatures(page, value) ==
    /\ pc = "run"
    /\ acked_features' =
           DevInfoSetAckedFeatures(avail_features, acked_features, page, value)
    /\ last' = Call("set_acked_features", "Ok")
    /\ UNCHANGED <<metvars, muxvars, cid, queue_sizes, config_space, avail_features, subscriber_id,
                   muxer, cfg_fails, activate_fails, handlers, next_id, regs,
                   deregs, pc>>

set_acked_features ==
    \E page \in Pages, value \in FeatureValues : SetAckedFeatures(page, value)

\* read_config that clears the caller's buffer before it reads
ReadConfig_ZeroFills(offset, data) ==
    /\ pc = "run"
    /\   LET r == DevInfoReadConfig(config_space, offset, [i \in 1..Len(data) |-> 0])
         IN /\ r.ok \/ cfg_fails < MaxCfgFails
            /\ cfg_fails' = IF ~r.ok THEN cfg_fails + 1 ELSE cfg_fails
            /\ last' = [op |-> "read_config", ret |-> "Ok", offset |-> offset,
                        before |-> data, data |-> r.data]
    /\ UNCHANGED <<metvars, muxvars, cid, queue_sizes, config_space, avail_features, acked_features,
                   subscriber_id, muxer, activate_fails, handlers, next_id, regs,
                   deregs, pc>>

\* read_config that always reads from the start of the config space
ReadConfig_IgnoresOffset(offset, data) ==
    /\ pc = "run"
    /\   LET r == DevInfoReadConfig(config_space, 0, data)
         IN /\ r.ok \/ cfg_fails < MaxCfgFails
            /\ cfg_fails' = IF ~r.ok THEN cfg_fails + 1 ELSE cfg_fails
            /\ last' = [op |-> "read_config", ret |-> "Ok", offset |-> offset,
                        before |-> data, data |-> r.data]
    /\ UNCHANGED <<metvars, muxvars, cid, queue_sizes, config_space, avail_features, acked_features,
                   subscriber_id, muxer, activate_fails, handlers, next_id, regs,
                   deregs, pc>>

\* read_config that counts the accepted reads instead of the rejected ones
ReadConfig_CountsAccepted(offset, data) ==
    /\ pc = "run"
    /\   LET r == DevInfoReadConfig(config_space, offset, data)
         IN /\ cfg_fails < MaxCfgFails
            /\ cfg_fails' = IF r.ok THEN cfg_fails + 1 ELSE cfg_fails
            /\ last' = [op |-> "read_config", ret |-> "Ok", offset |-> offset,
                        before |-> data, data |-> r.data]
    /\ UNCHANGED <<metvars, muxvars, cid, queue_sizes, config_space, avail_features, acked_features,
                   subscriber_id, muxer, activate_fails, handlers, next_id, regs,
                   deregs, pc>>

ReadConfig(offset, data) ==
    /\ pc = "run"
    /\   LET r == DevInfoReadConfig(config_space, offset, data)
         IN /\ r.ok \/ cfg_fails < MaxCfgFails
            /\ cfg_fails' = IF ~r.ok THEN cfg_fails + 1 ELSE cfg_fails
            /\ last' = [op |-> "read_config", ret |-> "Ok", offset |-> offset,
                        before |-> data, data |-> r.data]
    /\ UNCHANGED <<metvars, muxvars, cid, queue_sizes, config_space, avail_features, acked_features,
                   subscriber_id, muxer, activate_fails, handlers, next_id, regs,
                   deregs, pc>>

\* write_config that counts the accepted writes instead of the rejected ones
WriteConfig_CountsAccepted(offset, data) ==
    /\ pc = "run"
    /\   LET r == DevInfoWriteConfig(config_space, offset, data)
         IN /\ config_space' = r.cs
            /\ cfg_fails' = IF r.ok THEN cfg_fails + 1 ELSE cfg_fails
            /\ last' = [op |-> "write_config", ret |-> "Ok", offset |-> offset,
                        before |-> <<>>, data |-> data]
    /\ UNCHANGED <<metvars, muxvars, cid, queue_sizes, avail_features, acked_features,
                   subscriber_id, muxer, activate_fails, handlers, next_id, regs,
                   deregs, pc>>

WriteConfig(offset, data) ==
    /\ pc = "run"
    /\   LET r == DevInfoWriteConfig(config_space, offset, data)
         IN /\ r.ok \/ cfg_fails < MaxCfgFails
            /\ config_space' = r.cs
            /\ cfg_fails' = IF ~r.ok THEN cfg_fails + 1 ELSE cfg_fails
            /\ last' = [op |-> "write_config", ret |-> "Ok", offset |-> offset,
                        before |-> <<>>, data |-> data]
    /\ UNCHANGED <<metvars, muxvars, cid, queue_sizes, avail_features, acked_features,
                   subscriber_id, muxer, activate_fails, handlers, next_id, regs,
                   deregs, pc>>

\* activate that takes the muxer before it validates the queues
Activate_TakesMuxerFirst(queues) ==
    /\ pc = "run"
    /\   IF muxer = None
         THEN /\ pc' = "panicked"
              /\ last' = Call("activate", "panic")
              /\ UNCHANGED <<subscriber_id, muxer, handlers, next_id, regs,
                             activate_fails>>
         ELSE IF ~CheckQueueSizes(queue_sizes, queues)
         THEN /\ activate_fails < MaxActivateFails
              /\ activate_fails' = activate_fails + 1
              /\ muxer' = None
              /\ last' = Call("activate", "ActivateError")
              /\ UNCHANGED <<subscriber_id, handlers, next_id, regs, pc>>
         ELSE /\ muxer' = None
              /\ handlers' = [t \in DOMAIN handlers \cup {next_id} |->
                                 IF t = next_id THEN muxer[1] ELSE handlers[t]]
              /\ subscriber_id' = Some(next_id)
              /\ next_id' = next_id + 1
              /\ regs' = regs + 1
              /\ last' = Call("activate", "Ok")
              /\ UNCHANGED <<activate_fails, pc>>
    /\ UNCHANGED <<metvars, muxvars, cid, queue_sizes, config_space, avail_features, acked_features,
                   cfg_fails, deregs>>

\* activate that hands the handler a copy and keeps the muxer
Activate_KeepsMuxer(queues) ==
    /\ pc = "run"
    /\   IF ~CheckQueueSizes(queue_sizes, queues)
         THEN /\ activate_fails < MaxActivateFails
              /\ activate_fails' = activate_fails + 1
              /\ last' = Call("activate", "ActivateError")
              /\ UNCHANGED <<subscriber_id, muxer, handlers, next_id, regs, pc>>
         ELSE IF muxer = None
         THEN /\ pc' = "panicked"
              /\ last' = Call("activate", "panic")
              /\ UNCHANGED <<subscriber_id, muxer, handlers, next_id, regs,
                             activate_fails>>
         ELSE /\ next_id <= MaxActivateFails
              /\ muxer' = muxer
              /\ handlers' = [t \in DOMAIN handlers \cup {next_id} |->
                                 IF t = next_id THEN muxer[1] ELSE handlers[t]]
              /\ subscriber_id' = Some(next_id)
              /\ next_id' = next_id + 1
              /\ regs' = regs + 1
              /\ last' = Call("activate", "Ok")
              /\ UNCHANGED <<activate_fails, pc>>
    /\ UNCHANGED <<metvars, muxvars, cid, queue_sizes, config_space, avail_features, acked_features,
                   cfg_fails, deregs>>

Activate(queues) ==
    /\ pc = "run"
    /\   IF ~CheckQueueSizes(queue_sizes, queues)
         THEN /\ activate_fails < MaxActivateFails
              /\ activate_fails' = activate_fails + 1
              /\ last' = Call("activate", "ActivateError")
              /\ UNCHANGED <<subscriber_id, muxer, handlers, next_id, regs, pc>>
         ELSE IF muxer = None
         THEN \* self.muxer.take().unwrap() on None
              /\ pc' = "panicked"
              /\ last' = Call("activate", "panic")
              /\ UNCHANGED <<subscriber_id, muxer, handlers, next_id, regs,
                             activate_fails>>
         ELSE /\ muxer' = None
              /\ handlers' = [t \in DOMAIN handlers \cup {next_id} |->
                                 IF t = next_id THEN muxer[1] ELSE handlers[t]]
              /\ subscriber_id' = Some(next_id)
              /\ next_id' = next_id + 1
              /\ regs' = regs + 1
              /\ last' = Call("activate", "Ok")
              /\ UNCHANGED <<activate_fails, pc>>
    /\ UNCHANGED <<metvars, muxvars, cid, queue_sizes, config_space, avail_features, acked_features,
                   cfg_fails, deregs>>

\* remove that reads the token without taking it
remove_KeepsToken ==
    /\ pc = "run"
    /\ IF subscriber_id # None
       THEN /\ handlers' = [t \in DOMAIN handlers \ {subscriber_id[1]} |-> handlers[t]]
            /\ deregs <= MaxActivateFails
            /\ deregs' = deregs + 1
            /\ muxer' = muxer
       ELSE /\ muxer' = None
            /\ UNCHANGED <<handlers, deregs>>
    /\ subscriber_id' = subscriber_id
    /\ last' = Call("remove", "Ok")
    /\ UNCHANGED <<metvars, muxvars, cid, queue_sizes, config_space, avail_features, acked_features,
                   cfg_fails, activate_fails, next_id, regs, pc>>

remove ==
    /\ pc = "run"
    /\ IF subscriber_id # None
       THEN /\ handlers' = [t \in DOMAIN handlers \ {subscriber_id[1]} |-> handlers[t]]
            /\ deregs' = deregs + 1
            /\ muxer' = muxer
       ELSE /\ muxer' = None
            /\ UNCHANGED <<handlers, deregs>>
    /\ subscriber_id' = None
    /\ last' = Call("remove", "Ok")
    /\ UNCHANGED <<metvars, muxvars, cid, queue_sizes, config_space, avail_features, acked_features,
                   cfg_fails, activate_fails, next_id, regs, pc>>

\* the lifecycle of one device: every public operation, the config accesses
\* with a few representative inputs
activate == \E queues \in QueueConfigs : Activate(queues)

read_config == \E offset \in SomeOffsets, data \in SomeBuffers : ReadConfig(offset, data)

write_config == \E offset \in SomeOffsets, data \in SomeBuffers : WriteConfig(offset, data)

Next ==
    \/ add_backend
    \/ set_acked_features
    \/ read_config
    \/ write_config
    \/ activate
    \/ remove

Spec == Init /\ [][Next]_vars

\* get_resource_requirements that sizes the generic IRQ by the queues alone
GetResourceRequirements_QueuesOnly(requests, use_generic_irq) ==
    /\ pc = "run"
    /\ last' = [op |-> "get_resource_requirements", ret |-> "Ok", offset |-> 0,
                before |-> requests,
                data |-> IF use_generic_irq
                         THEN requests \o <<LegacyIrq, GenericIrq(Len(queue_sizes))>>
                         ELSE Append(requests, LegacyIrq)]
    /\ UNCHANGED <<metvars, muxvars, cid, queue_sizes, config_space, avail_features,
                   acked_features, subscriber_id, muxer, cfg_fails, activate_fails,
                   handlers, next_id, regs, deregs, pc>>

GetResourceRequirements(requests, use_generic_irq) ==
    /\ pc = "run"
    /\ last' = [op |-> "get_resource_requirements", ret |-> "Ok", offset |-> 0,
                before |-> requests,
                data |-> IF use_generic_irq
                         THEN requests \o <<LegacyIrq, GenericIrq(Len(queue_sizes) + 1)>>
                         ELSE Append(requests, LegacyIrq)]
    /\ UNCHANGED <<metvars, muxvars, cid, queue_sizes, config_space, avail_features,
                   acked_features, subscriber_id, muxer, cfg_fails, activate_fails,
                   handlers, next_id, regs, deregs, pc>>

\* resource requests at any point of the lifecycle, for devices of one,
\* two and three queues
get_resource_requirements ==
    \E requests \in RequestVecs, use_generic_irq \in BOOLEAN :
        GetResourceRequirements(requests, use_generic_irq)

InitResources == InitWith(LifecycleCIDs, ConfiguredQueueSizes)

NextResources ==
    \/ get_resource_requirements
    \/ add_backend
    \/ activate
    \/ remove

SpecResources == InitResources /\ [][NextResources]_vars

\* the config space: every context id, offset and length
read_config_any == \E offset \in Offsets, data \in Buffers : ReadConfig(offset, data)

write_config_any == \E offset \in Offsets, data \in Buffers : WriteConfig(offset, data)

NextConfig ==
    \/ read_config_any
    \/ write_config_any

SpecConfig == InitConfig /\ [][NextConfig]_vars

---------------------------------------------------------------------------
(* The muxer at run time, owned by the registered handler.  Each action is *)
(* one event the handler is woken for.  The muxer's source is outside the  *)
(* two files: this part follows the design document.                       *)

\* destination ports of the guest's requests
LocalPorts == {1, 2}

PeerPorts == {7, 8}

\* the (local port, peer port) keys of the guest's packets: two that differ
\* in the peer port alone, two that differ in the local port alone
RequestKeys == { <<1, 7>>, <<1, 8>>, <<2, 7>> }

ClosingStates == {"PeerClosed", "LocalClosed", "Killed"}

ConnKeys(cm) == { cm[i].key : i \in DOMAIN cm }

ConnOf(cm, key) == cm[CHOOSE i \in DOMAIN cm : cm[i].key = key]

\* the backend registry lookup: destination port, else the default backend
Route(m, port) == IF port \in m.backends THEN Some(port) ELSE m.default_backend

\* the lowest descriptor that no connection's backend stream holds
FreeFd(lm) == CHOOSE fd \in 1..(Cardinality(lm) + 1) :
                 /\ \A e \in lm : e[1] # fd
                 /\ \A g \in 1..(fd - 1) : \E e \in lm : e[1] = g

SetState(cm, key, st) ==
    [i \in DOMAIN cm |-> IF cm[i].key = key THEN [cm[i] EXCEPT !.state = st] ELSE cm[i]]

\* the kill-queue with the key queued, due KillTimeout from t; a queued key
\* keeps its deadline
KillqPush(q, key, t) ==
    IF \E i \in DOMAIN q : q[i].key = key
    THEN q
    ELSE Append(q, [key |-> key, deadline |-> t + KillTimeout])

Expired(q, t) == { q[i].key : i \in { j \in DOMAIN q : q[j].deadline <= t } }

\* the handler that holds the muxer
HandlerMuxer == handlers[subscriber_id[1]]

Running == pc = "run" /\ subscriber_id # None

DeviceVars == <<cid, queue_sizes, config_space, avail_features, acked_features,
                subscriber_id, muxer, cfg_fails, activate_fails, handlers, next_id,
                regs, deregs, pc, metvars>>

\* registries add_backend can have built before the activation: port 2
\* unrouted, port 2 served by the default backend, port 2 served by its own
\* backend though another one is the default
Registries ==
    { [backends |-> {1}, default_backend |-> None],
      [backends |-> {1}, default_backend |-> Some(1)],
      [backends |-> {1, 2}, default_backend |-> Some(1)] }

InitMuxer ==
    /\ cid \in LifecycleCIDs
    /\ queue_sizes = <<2, 2, 2>>
    /\ config_space = ConfigSpaceOf(cid)
    /\ avail_features = VSOCK_AVAIL_FEATURES
    /\ acked_features = VSOCK_AVAIL_FEATURES
    /\ subscriber_id = Some(1)
    /\ muxer = None
    /\ cfg_fails = 0
    /\ activate_fails = 0
    /\ \E m \in Registries : handlers = <<m>>
    /\ next_id = 2
    /\ regs = 1
    /\ deregs = 0
    /\ pc = "run"
    /\ last = Call("activate", "Ok")
    /\ conn_map = <<>>
    /\ listener_map = {}
    /\ killq = <<>>
    /\ now = 0
    /\ arc_metrics = <<DefaultMetrics>>
    /\ holders = [NewHolders EXCEPT !["handler"] = 1]
    /\ inc_calls = DefaultMetrics

\* a connection request that opens a second connection under a key the
\* table already holds
TxRequest_NoLookup(local, peer, alloc) ==
    /\ Running
    /\ LET key == <<local, peer>>
           b == Route(HandlerMuxer, local)
       IN IF b = None
          THEN /\ last' = Call("tx_request", "RST")
               /\ UNCHANGED <<conn_map, listener_map, killq>>
          ELSE /\ Len(conn_map) < MaxConns
               /\ conn_map' = Append(conn_map,
                                 [key |-> key, state |-> "Established",
                                  backend |-> b[1], fd |-> FreeFd(listener_map),
                                  buf_alloc |-> alloc, fwd_cnt |-> 0])
               /\ listener_map' = listener_map \cup {<<FreeFd(listener_map), key>>}
               /\ last' = Call("tx_request", "Created")
               /\ UNCHANGED killq
    /\ UNCHANGED <<DeviceVars, now>>

\* the guest's connection request for (local, peer), declaring alloc bytes
TxRequest(local, peer, alloc) ==
    /\ Running
    /\ LET key == <<local, peer>>
           b == Route(HandlerMuxer, local)
       IN IF key \in ConnKeys(conn_map)
          THEN \* routed to the connection, which takes it as a violation
               /\ conn_map' = SetState(conn_map, key, "Killed")
               /\ killq' = KillqPush(killq, key, now)
               /\ last' = Call("tx_request", "RST")
               /\ UNCHANGED listener_map
          ELSE IF b = None
          THEN /\ last' = Call("tx_request", "RST")
               /\ UNCHANGED <<conn_map, listener_map, killq>>
          ELSE /\ Len(conn_map) < MaxConns
               /\ conn_map' = Append(conn_map,
                                 [key |-> key, state |-> "Established",
                                  backend |-> b[1], fd |-> FreeFd(listener_map),
                                  buf_alloc |-> alloc, fwd_cnt |-> 0])
               /\ listener_map' = listener_map \cup {<<FreeFd(listener_map), key>>}
               /\ last' = Call("tx_request", "Created")
               /\ UNCHANGED killq
    /\ UNCHANGED <<DeviceVars, now>>

\* backend data forwarded whatever the peer's allowance
BackendData_NoCredit(key, n) ==
    /\ Running
    /\ key \in ConnKeys(conn_map)
    /\ ConnOf(conn_map, key).state = "Established"
    /\ ConnOf(conn_map, key).fwd_cnt + n <= MaxAlloc + 1
    /\ conn_map' = [i \in DOMAIN conn_map |->
                      IF conn_map[i].key = key
                      THEN [conn_map[i] EXCEPT !.fwd_cnt = @ + n]
                      ELSE conn_map[i]]
    /\ last' = Call("backend_data", "RW")
    /\ UNCHANGED <<DeviceVars, listener_map, killq, now>>

\* the backend of the connection has n bytes for the guest
BackendData(key, n) ==
    /\ Running
    /\ key \in ConnKeys(conn_map)
    /\ ConnOf(conn_map, key).state = "Established"
    /\ LET c == ConnOf(conn_map, key)
       IN IF c.fwd_cnt + n <= c.buf_alloc
          THEN /\ conn_map' = [i \in DOMAIN conn_map |->
                                 IF conn_map[i].key = key
                                 THEN [conn_map[i] EXCEPT !.fwd_cnt = @ + n]
                                 ELSE conn_map[i]]
               /\ last' = Call("backend_data", "RW")
               /\ UNCHANGED killq
          ELSE /\ conn_map' = SetState(conn_map, key, "Killed")
               /\ killq' = KillqPush(killq, key, now)
               /\ last' = Call("backend_data", "RST")
    /\ UNCHANGED <<DeviceVars, listener_map, now>>

\* the connection enters a closing state: the guest's shutdown (PeerClosed),
\* the backend's end of stream or I/O error (LocalClosed), a reset (Killed)
Close(key, st) ==
    /\ Running
    /\ key \in ConnKeys(conn_map)
    /\ ConnOf(conn_map, key).state = "Established"
    /\ conn_map' = SetState(conn_map, key, st)
    /\ killq' = KillqPush(killq, key, now)
    /\ last' = Call("close", "Ok")
    /\ UNCHANGED <<DeviceVars, listener_map, now>>

\* time passes
Tick ==
    /\ Running
    /\ now < MaxTime
    /\ now' = now + 1
    /\ UNCHANGED <<DeviceVars, last, conn_map, listener_map, killq>>

\* a resync that purges every queued connection, due or not
EvqKick_PurgesAll ==
    /\ Running
    /\ LET gone == { killq[i].key : i \in DOMAIN killq }
           Keep(c) == c.key \notin gone
       IN /\ conn_map' = SelectSeq(conn_map, Keep)
          /\ listener_map' = { e \in listener_map : e[2] \notin gone }
          /\ killq' = <<>>
    /\ last' = Call("evq_kick", "Ok")
    /\ UNCHANGED <<DeviceVars, now>>

\* a resync that purges the table and the queue and forgets the fd index
EvqKick_KeepsIndex ==
    /\ Running
    /\ LET gone == Expired(killq, now)
           Keep(c) == c.key \notin gone
           Later(e) == e.key \notin gone
       IN /\ conn_map' = SelectSeq(conn_map, Keep)
          /\ listener_map' = listener_map
          /\ killq' = SelectSeq(killq, Later)
    /\ last' = Call("evq_kick", "Ok")
    /\ UNCHANGED <<DeviceVars, now>>

\* an event-queue kick: the kill-queue resync purges what is due
EvqKick ==
    /\ Running
    /\ LET gone == Expired(killq, now)
           Keep(c) == c.key \notin gone
           Later(e) == e.key \notin gone
       IN /\ conn_map' = SelectSeq(conn_map, Keep)
          /\ listener_map' = { e \in listener_map : e[2] \notin gone }
          /\ killq' = SelectSeq(killq, Later)
    /\ last' = Call("evq_kick", "Ok")
    /\ UNCHANGED <<DeviceVars, now>>

\* connections coming and going: requests, closing, the clock, the resync
tx_request == \E key \in RequestKeys : TxRequest(key[1], key[2], MaxAlloc)

close == \E key \in RequestKeys, st \in ClosingStates : Close(key, st)

NextMuxer ==
    \/ tx_request
    \/ close
    \/ Tick
    \/ EvqKick

SpecMuxer == InitMuxer /\ [][NextMuxer]_vars

\* the flow of data to the guest: requests declaring every allowance, the
\* backends producing every amount, connections closing
FlowKeys == LocalPorts \X {7}

tx_request_alloc ==
    \E key \in FlowKeys, alloc \in 1..MaxAlloc : TxRequest(key[1], key[2], alloc)

backend_data ==
    \E key \in FlowKeys, n \in 1..(MaxAlloc + 1) : BackendData(key, n)

close_flow == \E key \in FlowKeys, st \in ClosingStates : Close(key, st)

NextFlow ==
    \/ tx_request_alloc
    \/ backend_data
    \/ close_flow

SpecFlow == InitMuxer /\ [][NextFlow]_vars

---------------------------------------------------------------------------
(* The shared metrics: one VsockDeviceMetrics behind an Arc, its holders   *)
(* calling inc() on its counters in any order                              *)

MetricsFrame ==
    UNCHANGED <<muxvars, cid, queue_sizes, config_space, avail_features, acked_features,
                subscriber_id, muxer, cfg_fails, activate_fails, handlers, next_id,
                regs, deregs, pc, last>>

\* Arc::clone: the new holder points at the object the device points at
ArcClone(h) == [holders EXCEPT ![h] = holders["device"]]

\* get_metrics that hands out a copy of the counters, not the Arc
GetMetrics_Copies ==
    /\ holders["reporter"] = 0
    /\ arc_metrics' = Append(arc_metrics, arc_metrics[holders["device"]])
    /\ holders' = [holders EXCEPT !["reporter"] = Len(arc_metrics) + 1]
    /\ UNCHANGED inc_calls
    /\ MetricsFrame

\* Vsock::get_metrics, called by a reporting thread
GetMetrics ==
    /\ holders["reporter"] = 0
    /\ holders' = ArcClone("reporter")
    /\ UNCHANGED <<arc_metrics, inc_calls>>
    /\ MetricsFrame

\* the self.metrics.clone() activate passes to VsockEpollHandler::new
HandlerMetrics ==
    /\ holders["handler"] = 0
    /\ holders' = ArcClone("handler")
    /\ UNCHANGED <<arc_metrics, inc_calls>>
    /\ MetricsFrame

\* SharedIncMetric::inc through holder h: one atomic fetch_add on the
\* counter of the object h points at
Inc(h, c) ==
    /\ holders[h] # 0
    /\ inc_calls[c] < MaxIncs
    /\ arc_metrics' = [arc_metrics EXCEPT ![holders[h]][c] = @ + 1]
    /\ inc_calls' = [inc_calls EXCEPT ![c] = @ + 1]
    /\ UNCHANGED holders
    /\ MetricsFrame

\* SharedIncMetric::count through holder h
Count(h, c) == arc_metrics[holders[h]][c]

inc == \E h \in Holders, c \in Counters : Inc(h, c)

NextMetrics ==
    \/ GetMetrics
    \/ HandlerMetrics
    \/ inc

SpecMetrics == Init /\ [][NextMetrics]_vars

---------------------------------------------------------------------------
(* Claims about the device lifecycle (under Spec) *)

\* an activate has succeeded: the handler was built and registered
Activated == regs > 0

DeviceState == <<subscriber_id, muxer, handlers, regs, deregs, next_id>>

\* C1: every add_backend after a successful activate returns
\* BackendAddAfterActivated and changes neither the registry the handler
\* owns nor anything else of the device.
C1_AddBackendAfterActivate ==
    [][(add_backend /\ Activated) =>
          /\ last'.ret = "BackendAddAfterActivated"
          /\ handlers' = handlers
          /\ muxer' = muxer
          /\ subscriber_id' = subscriber_id]_vars

C1_Witness ==
    /\ last.op = "add_backend"
    /\ last.ret = "BackendAddAfterActivated"
    /\ subscriber_id # None
    /\ handlers[subscriber_id[1]].backends # {}

\* C2: an activate whose queues fail validation returns the error, builds
\* and registers no handler, stores no token, keeps the muxer, and adds
\* exactly one to activate_fails.
C2_FailedActivateIsAtomic ==
    [][\A queues \in QueueConfigs :
          (Activate(queues) /\ ~CheckQueueSizes(queue_sizes, queues)) =>
             /\ last'.ret = "ActivateError"
             /\ handlers' = handlers
             /\ regs' = regs
             /\ next_id' = next_id
             /\ subscriber_id' = subscriber_id
             /\ muxer' = muxer
             /\ pc' = pc
             /\ activate_fails' = activate_fails + 1]_vars

C2_Witness ==
    /\ last.op = "activate"
    /\ last.ret = "ActivateError"
    /\ activate_fails = 1
    /\ regs = 0
    /\ subscriber_id = None
    /\ handlers = <<>>
    /\ muxer # None

\* C3: no sequence of public operations terminates the process: the unwrap
\* of the muxer in activate never meets None.
C3_NeverTerminates == pc = "run"

\* C4: remove deregisters with the stored token and clears it when a handler
\* is registered, drops the muxer and deregisters nothing otherwise; a remove
\* right after a remove changes nothing; at most one deregistration per
\* successful activation.
C4_RemoveIdempotent ==
    /\ [][remove =>
            /\ subscriber_id' = None
            /\ subscriber_id # None =>
                  /\ subscriber_id[1] \in DOMAIN handlers
                  /\ subscriber_id[1] \notin DOMAIN handlers'
                  /\ deregs' = deregs + 1
                  /\ muxer' = muxer
            /\ subscriber_id = None =>
                  /\ deregs' = deregs
                  /\ handlers' = handlers
                  /\ muxer' = None
            /\ ~Activated => deregs' = deregs
            /\ last.op = "remove" => DeviceState' = DeviceState]_vars
    /\ [](deregs <= regs)

C4_Witness ==
    /\ last.op = "remove"
    /\ Activated
    /\ deregs = 1
    /\ subscriber_id = None
    /\ handlers = <<>>

\* C5 as stated: the device owns the muxer from construction until the
\* first successful activate.
C5_OwnsUntilActivate == ~Activated => muxer # None

\* C5, amended: the device gives the muxer up only in a successful activate
\* (to the handler registered under the stored token) or in a remove, and
\* never gets it back; it never holds both the muxer and a token, and a
\* token it holds names a registered handler.
C5_OneShotHandOff ==
    /\ [](~(muxer # None /\ subscriber_id # None))
    /\ [](subscriber_id # None => subscriber_id[1] \in DOMAIN handlers)
    /\ [](Activated => muxer = None)
    /\ [][muxer = None => muxer' = None]_vars
    /\ [][(muxer # None /\ muxer' = None) =>
            \/ /\ regs' = regs + 1
               /\ subscriber_id' = Some(next_id)
               /\ handlers' = [t \in DOMAIN handlers \cup {next_id} |->
                                  IF t = next_id THEN muxer[1] ELSE handlers[t]]
            \/ /\ remove
               /\ subscriber_id = None]_vars
    /\ [][subscriber_id' # None /\ subscriber_id = None =>
            muxer # None /\ handlers'[subscriber_id'[1]] = muxer[1]]_vars

C5_Witness ==
    /\ last.op = "activate"
    /\ last.ret = "Ok"
    /\ muxer = None
    /\ subscriber_id # None
    /\ handlers[subscriber_id[1]].default_backend # None

---------------------------------------------------------------------------
(* Claims about the config space (under SpecConfig) *)

\* bytes is the little-endian encoding of the context id c
IsLittleEndianOf(bytes, c) ==
    /\ Len(bytes) = 2 * Len(c)
    /\ \A k \in 1..Len(c) :
          /\ bytes[2 * k - 1] \in 0..255
          /\ bytes[2 * k] \in 0..255
          /\ c[k] = bytes[2 * k - 1] + 256 * bytes[2 * k]

\* what C9 says of one read_config step
ReadsSlice(offset, data) ==
    /\ last'.data = SubSeq(config_space, offset + 1, offset + Len(data))
    /\ cfg_fails' = cfg_fails

C10_WriteHasNoEffect ==
    [][\A offset \in Offsets, data \in Buffers :
          WriteConfig(offset, data) =>
             /\ cfg_fails' = cfg_fails + 1
             /\ \A o \in Offsets, d \in Buffers :
                   DevInfoReadConfig(config_space', o, d) =
                   DevInfoReadConfig(config_space, o, d)]_vars

C10_Witness ==
    /\ last.op = "write_config"
    /\ last.offset = 0
    /\ Len(last.data) = 4
    /\ cfg_fails = 1
    /\ config_space = ConfigSpaceOf(cid)

---------------------------------------------------------------------------
(* Claims about the connection table and the kill-queue (under SpecMuxer) *)

NoDuplicateKeys ==
    \A i, j \in DOMAIN conn_map : conn_map[i].key = conn_map[j].key => i = j

\* the backend a request for the port is to be served by, when there is one
BackendFor(port) ==
    IF port \in HandlerMuxer.backends THEN port ELSE HandlerMuxer.default_backend[1]

HasRoute(port) ==
    port \in HandlerMuxer.backends \/ HandlerMuxer.default_backend # None

\* C6: the table never holds a key twice, and a request for a key the table
\* does not hold either adds exactly one connection, served by the backend
\* registered for the destination port, else by the default backend, or,
\* with no route, adds none and is answered with a reset.
C6_RequestsCreateOneOrReset ==
    /\ [](NoDuplicateKeys)
    /\ [][\A local \in LocalPorts, peer \in PeerPorts :
            (<<local, peer>> \in RequestKeys /\ TxRequest(local, peer, MaxAlloc) /\ <<local, peer>> \notin ConnKeys(conn_map))
            => IF HasRoute(local)
               THEN /\ Len(conn_map') = Len(conn_map) + 1
                    /\ SubSeq(conn_map', 1, Len(conn_map)) = conn_map
                    /\ conn_map'[Len(conn_map')].key = <<local, peer>>
                    /\ conn_map'[Len(conn_map')].backend = BackendFor(local)
                    /\ last'.ret = "Created"
               ELSE /\ conn_map' = conn_map
                    /\ listener_map' = listener_map
                    /\ last'.ret = "RST"]_vars

C6_Witness ==
    /\ last.op = "tx_request"
    /\ last.ret = "RST"
    /\ HandlerMuxer.default_backend = None
    /\ Len(conn_map) = 2
    /\ \A i \in DOMAIN conn_map : conn_map[i].state = "Established"

QueuedKeys == { killq[i].key : i \in DOMAIN killq }

ListenedKeys == { e[2] : e \in listener_map }

\* C8: a connection that enters a closing state stays in the table and in
\* the fd index and is queued with a deadline; a queued connection stays
\* there until an event-queue kick finds its deadline passed, and is in
\* neither the table nor the fd index after that kick.
C8_DeferredDeletion ==
    /\ [](QueuedKeys \subseteq ConnKeys(conn_map) /\ QueuedKeys \subseteq ListenedKeys)
    /\ [](\A i \in DOMAIN conn_map :
             conn_map[i].state \in ClosingStates => conn_map[i].key \in QueuedKeys)
    /\ [][\A key \in RequestKeys, st \in ClosingStates :
            Close(key, st) =>
               /\ key \in ConnKeys(conn_map')
               /\ ConnOf(conn_map', key).state = st
               /\ key \in ListenedKeys'
               /\ \E i \in DOMAIN killq' :
                     killq'[i] = [key |-> key, deadline |-> now + KillTimeout]]_vars
    /\ [][\A key \in (ConnKeys(conn_map) \ ConnKeys(conn_map'))
                     \cup (ListenedKeys \ ListenedKeys') :
            /\ EvqKick
            /\ \E i \in DOMAIN killq : killq[i].key = key /\ killq[i].deadline <= now]_vars
    /\ [][EvqKick =>
            \A i \in DOMAIN killq :
               killq[i].deadline <= now =>
                  /\ killq[i].key \notin ConnKeys(conn_map')
                  /\ killq[i].key \notin ListenedKeys'
                  /\ killq[i].key \notin QueuedKeys']_vars

\* a kick has purged the first connection (its descriptor is free again)
\* and left the second one, which is queued and not yet due
C8_Witness ==
    /\ last.op = "evq_kick"
    /\ Len(conn_map) = 1
    /\ conn_map[1].fd = 2
    /\ conn_map[1].state \in ClosingStates
    /\ Len(killq) = 1
    /\ killq[1].deadline > now

---------------------------------------------------------------------------
(* Claims about flow control (under SpecFlow) *)

\* C7: no connection has forwarded more bytes to the guest than the peer's
\* declared buffer allocation, and backend data that would exceed it resets
\* the connection and forwards nothing.
C7_FlowControl ==
    /\ [](\A i \in DOMAIN conn_map : conn_map[i].fwd_cnt <= conn_map[i].buf_alloc)
    /\ [][\A key \in FlowKeys, n \in 1..(MaxAlloc + 1) :
            (BackendData(key, n)
               /\ ConnOf(conn_map, key).fwd_cnt + n > ConnOf(conn_map, key).buf_alloc)
            => /\ ConnOf(conn_map', key).state = "Killed"
               /\ ConnOf(conn_map', key).fwd_cnt = ConnOf(conn_map, key).fwd_cnt
               /\ key \in QueuedKeys'
               /\ last'.ret = "RST"]_vars

C7_Witness ==
    /\ last.op = "backend_data"
    /\ last.ret = "RST"
    /\ \E i \in DOMAIN conn_map :
          /\ conn_map[i].state = "Killed"
          /\ conn_map[i].fwd_cnt = 1
          /\ conn_map[i].buf_alloc = 2

---------------------------------------------------------------------------
(* More claims about the config space (under SpecConfig) *)

OffsetOutOfRange(offset) == offset >= VSOCK_CONFIG_SPACE_SIZE

C15_ReadPastEnd ==
    [][\A offset \in Offsets, data \in Buffers :
          (ReadConfig(offset, data)
             /\ offset < VSOCK_CONFIG_SPACE_SIZE
             /\ VSOCK_CONFIG_SPACE_SIZE < offset + Len(data))
          => /\ Len(last'.data) = Len(data)
             /\ \A i \in 1..Len(data) :
                   last'.data[i] = IF i <= VSOCK_CONFIG_SPACE_SIZE - offset
                                   THEN config_space[offset + i]
                                   ELSE data[i]]_vars

\* the test's case: offset 2 into 0, 1, ..., 7 on a context id below 2^16
C15_Witness ==
    /\ last.op = "read_config"
    /\ cid = <<3, 0, 0, 0>>
    /\ last.offset = 2
    /\ last.before = <<0, 1, 2, 3, 4, 5, 6, 7>>
    /\ last.data = <<0, 0, 0, 0, 0, 0, 6, 7>>

---------------------------------------------------------------------------
(* Feature negotiation (under Spec) *)

\* the feature bits a driver offers with one 32-bit page write
OfferedBits(page, value) ==
    IF page \in {0, 1} THEN {32 * page + b : b \in value} ELSE {}

\* C12: only the version-1 and in-order bits are advertised; every ack adds
\* exactly the advertised bits among those offered on page 0 or 1, so the
\* acked set stays inside the advertised set, a page >= 2 changes nothing
\* and no ack removes a bit.
C12_AckedIsAdvertisedAndOffered ==
    [][/\ avail_features = {VIRTIO_F_VERSION_1, VIRTIO_F_IN_ORDER}
       /\ acked_features \subseteq avail_features
       /\ \A page \in Pages, value \in FeatureValues :
             SetAckedFeatures(page, value)
             => /\ acked_features' =
                      acked_features \cup (avail_features \cap OfferedBits(page, value))
                /\ acked_features \subseteq acked_features'
                /\ acked_features' \subseteq avail_features
                /\ page >= 2 => acked_features' = acked_features]_vars

\* both advertised bits acked, one page at a time
C12_Witness ==
    /\ last.op = "set_acked_features"
    /\ acked_features = {VIRTIO_F_VERSION_1, VIRTIO_F_IN_ORDER}

---------------------------------------------------------------------------
(* The metrics counters (under SpecMetrics) *)

\* C13: every holder of the shared metrics reads the same value of each
\* counter, that value is the number of inc() calls made on the counter
\* through any holder in whatever order they ran, and no counter of any
\* metrics object ever decreases.
C13_SharedCounters ==
    /\ [](\A h \in Holders, c \in Counters :
             holders[h] # 0 => Count(h, c) = inc_calls[c])
    /\ [][\A i \in 1..Len(arc_metrics), c \in Counters :
             arc_metrics'[i][c] >= arc_metrics[i][c]]_vars

\* the three holders read every increment made on one counter
C13_Witness ==
    /\ \A h \in Holders : holders[h] # 0
    /\ inc_calls["activate_fails"] = MaxIncs
    /\ inc_calls["conns_added"] > 0
    /\ \A h \in Holders : Count(h, "activate_fails") = MaxIncs

---------------------------------------------------------------------------
(* Resource requirements (under SpecResources) *)

\* how many requests of one kind a vector holds
CountKind(reqs, kind) == Cardinality({i \in 1..Len(reqs) : reqs[i].kind = kind})

\* C14: get_resource_requirements keeps the caller's requests and appends
\* exactly one legacy-IRQ request, then one generic-IRQ request of size
\* (number of queues + 1) if and only if generic-IRQ mode is asked for; no
\* field of the device, the dispatcher or the metrics changes.
C14_ResourceRequirements ==
    [][\A requests \in RequestVecs, use_generic_irq \in BOOLEAN :
          GetResourceRequirements(requests, use_generic_irq)
          => LET out == last'.data
                 n == Len(requests)
             IN /\ SubSeq(out, 1, n) = requests
                /\ Len(out) = n + (IF use_generic_irq THEN 2 ELSE 1)
                /\ CountKind(out, "LegacyIrq") = CountKind(requests, "LegacyIrq") + 1
                /\ CountKind(out, "GenericIrq") =
                      CountKind(requests, "GenericIrq") + (IF use_generic_irq THEN 1 ELSE 0)
                /\ use_generic_irq =>
                      out[Len(out)] = GenericIrq(Len(queue_sizes) + 1)
                /\ UNCHANGED <<DeviceVars, muxvars>>]_vars

\* a two-queue device, activated, asked in generic-IRQ mode
C14_Witness ==
    /\ last.op = "get_resource_requirements"
    /\ queue_sizes = <<2, 2>>
    /\ subscriber_id # None
    /\ last.before = <<>>
    /\ last.data = <<LegacyIrq, GenericIrq(3)>>

---------------------------------------------------------------------------
(* Config access failures (under Spec) *)

\* what a config access must leave alone: the lifecycle state, the acked
\* features, the other failure counter, and the process itself
ConfigAccessFrame ==
    /\ UNCHANGED <<DeviceState, acked_features, avail_features, activate_fails>>
    /\ pc' = "run"

\* C16: a read_config or write_config the device info rejects adds exactly
\* one to cfg_fails and nothing to activate_fails, and leaves the muxer, the
\* registration token, the acked features and the config space as they
\* were; an accepted access adds nothing to either counter.
C16_ConfigFailsCounted ==
    [][\A offset \in SomeOffsets, data \in SomeBuffers :
          /\ ReadConfig(offset, data)
             => /\ ConfigAccessFrame
                /\ config_space' = config_space
                /\ cfg_fails' =
                      IF DevInfoReadConfig(config_space, offset, data).ok
                      THEN cfg_fails ELSE cfg_fails + 1
          /\ WriteConfig(offset, data)
             => /\ ConfigAccessFrame
                /\ IF DevInfoWriteConfig(config_space, offset, data).ok
                   THEN cfg_fails' = cfg_fails
                   ELSE /\ cfg_fails' = cfg_fails + 1
                        /\ config_space' = config_space]_vars

\* one rejected read on an activated device that has acked features
C16_Witness ==
    /\ last.op = "read_config"
    /\ OffsetOutOfRange(last.offset)
    /\ cfg_fails = 1
    /\ activate_fails = 0
    /\ subscriber_id # None
    /\ acked_features # {}
    /\ pc = "run"

---------------------------------------------------------------------------
(* The fd index of the muxer (under SpecMuxer) *)

---------------------------------------------------------------------------
(* add_backend on a device that was never activated (under Spec) *)

\* C18: add_backend returns BackendAddAfterActivated only on a device on
\* which an earlier activate succeeded; on any other device, whatever was
\* called before, it returns what the muxer returned.
C18_ErrorOnlyAfterActivation ==
    (last.op = "add_backend" /\ ~Activated) => last.ret \in {"Ok", "MuxerError"}

---------------------------------------------------------------------------
(* After a failed activation (under Spec) *)

\* the device still owns its muxer: it was neither activated nor removed
OwnsMuxer == muxer # None

\* the last call was an activate that failed on a device owning its muxer
AfterFailedActivate ==
    /\ last.op = "activate"
    /\ last.ret = "ActivateError"
    /\ OwnsMuxer

\* C19: an activate that fails on a device owning its muxer changes only
\* activate_fails: the muxer and its registry stay with the device as they
\* were.  An add_backend that follows reaches the muxer, and an activate
\* with valid queues that follows succeeds and registers exactly one
\* handler, which gets that muxer.
C19_FailedActivateLeavesPreActivation ==
    /\ [][\A queues \in QueueConfigs :
            (Activate(queues) /\ OwnsMuxer /\ ~CheckQueueSizes(queue_sizes, queues))
            => /\ muxer' = muxer
               /\ OwnsMuxer'
               /\ activate_fails' = activate_fails + 1
               /\ UNCHANGED <<cid, queue_sizes, config_space, avail_features,
                              acked_features, subscriber_id, handlers, next_id,
                              regs, deregs, cfg_fails, pc, metvars, muxvars>>]_vars
    /\ [](AfterFailedActivate => (regs = 0 /\ handlers = <<>> /\ subscriber_id = None))
    /\ [][(AfterFailedActivate /\ add_backend)
            => /\ last'.ret \in {"Ok", "MuxerError"}
               /\ OwnsMuxer'
               /\ last'.ret = "Ok" =>
                     \E key \in BackendKeys, is_default \in BOOLEAN :
                        muxer'[1] = MuxerAddBackend(muxer[1], key, is_default)]_vars
    /\ [][\A queues \in QueueConfigs :
            (AfterFailedActivate /\ Activate(queues)
               /\ CheckQueueSizes(queue_sizes, queues))
            => /\ last'.ret = "Ok"
               /\ pc' = "run"
               /\ regs' = 1
               /\ subscriber_id' # None
               /\ DOMAIN handlers' = {subscriber_id'[1]}
               /\ handlers'[subscriber_id'[1]] = muxer[1]]_vars

\* two failed activations, then backends added, then the activation that
\* succeeds: one handler, holding the registry
C19_Witness ==
    /\ last.op = "activate"
    /\ last.ret = "Ok"
    /\ activate_fails = 2
    /\ regs = 1
    /\ deregs = 0
    /\ subscriber_id # None
    /\ DOMAIN handlers = {subscriber_id[1]}
    /\ handlers[subscriber_id[1]].backends = BackendKeys

====
